---- MODULE Spec2Model ----
(***************************************************************************)
(* The deployer: an Express server (src/src/index.ts) that turns GitHub    *)
(* pushes and manual requests into jobs of the bullmq queue 'deployments', *)
(* and a bullmq Worker (src/src/worker.ts) that runs deployAgent for each  *)
(* job inside a temporary directory.                                       *)
(*                                                                         *)
(* The handlers, the agent registry, the job options and deployAgent are   *)
(* translated from the source.  The queue's own bookkeeping (what a claim, *)
(* an acknowledge, a backoff and a lost claim do to a job) is bullmq's and *)
(* is not part of the repository: it is written after sections 4.1, 4.2    *)
(* and 7 of the specification, in the operators moveToActive,              *)
(* moveToCompleted, moveToFailed, moveToWait and moveStalledToWait, with   *)
(* the options the source passes (attempts, backoff, concurrency).         *)
(***************************************************************************)
EXTENDS Integers, Sequences, FiniteSets, TLC

(* ------------------------------ bounds -------------------------------- *)
MaxJobs    == 2     \* jobs ever enqueued
MaxCrashes == 2     \* worker process crashes
NumWorkers == 2     \* worker processes attached to the queue
MaxQueued  == 1     \* jobs ever enqueued, where every request and registry is tried
MaxPool    == 3     \* jobs ever enqueued, where one worker process has more jobs than slots

(* ------------------------- program constants -------------------------- *)
AttemptsTwo  == 3 - 1  \* a deployer that gives up one attempt early
AttemptsFour == 3 + 1  \* a deployer that retries once more
Attempts     == 3      \* job option attempts
BackoffDelay == 5000   \* job option backoff.delay, in ms
Concurrency  == 2      \* worker option concurrency

None     == "none"              \* an absent string
NoResult == [url |-> <<>>]     \* an absent return value

(* ------------------------------ registry ------------------------------ *)
Agent(n, r, ad, bs) == [name |-> n, repo |-> r, autoDeploy |-> ad, branches |-> bs]

\* the registry of config.ts
SourceAgents ==
  << Agent("edna",   "edna-ghl-agent",       TRUE, <<"main">>),
     Agent("mabel",  "mabel-lead-agent",     TRUE, <<"main">>),
     Agent("otis",   "otis-seo-agent",       TRUE, <<"main">>),
     Agent("harold", "harold-finance-agent", TRUE, <<"main">>) >>

\* registries of the shape the schema of config.ts allows (autoDeploy and
\* branches are per-agent settings, repo need not be unique)
Registries ==
  { << Agent("otis",   "otis-seo-agent", ad1, <<"main">>),
       Agent("harold", r2,               ad2, bs2) >> :
      ad1 \in BOOLEAN, ad2 \in BOOLEAN,
      r2  \in {"harold-finance-agent", "otis-seo-agent"},
      bs2 \in {<<"main">>, <<"main", "release">>} }

\* the requests: a webhook delivery (signature valid or not, event, repository
\* and branch of the push) and a manual deploy (agent, req.body.branch)
Delivery(sigOk, event, repoName, branch) ==
  [sigOk |-> sigOk, event |-> event, repoName |-> repoName, branch |-> branch]

Pushes ==
  { Delivery(TRUE, "push", r, b) :
      r \in {"otis-seo-agent", "harold-finance-agent", "unknown-repo"},
      b \in {"main", "release"} }

Deliveries ==
  Pushes \cup { Delivery(FALSE, "push", "otis-seo-agent", "main"),
                Delivery(TRUE,  "ping", "otis-seo-agent", "main") }

Manuals ==
  { [agent |-> n, branch |-> b] :
      n \in {"otis", "harold", "nobody"}, b \in {None, "release"} }

VARIABLES
  agents,      \* the agent registry (immutable once loaded)
  jobs,        \* the queue 'deployments': jobs[id] is the job with that id
  running,     \* processor invocations in progress, over all worker processes
  disk,        \* temporary directories that exist under os.tmpdir()
  response,    \* the last HTTP response sent by the server
  crashes,     \* number of worker process crashes so far
  audit,       \* observer: per job, failed runs, lost claims, runs started, ms waited
  orphaned,    \* observer: directories of attempts cut short by a crash
  rejected,    \* observer: the first rejection the server answered
  query,       \* the status request in progress, between getJob and getState
  status       \* the last response of GET /deploy/:jobId/status

vars == <<agents, jobs, running, disk, response, crashes, audit, orphaned, rejected,
          query, status>>

JobIds  == 1..Len(jobs)
Workers == 1..NumWorkers

(* Array.prototype.includes *)
includes(seq, x) == \E i \in 1..Len(seq) : seq[i] = x

(* Array.prototype.find: the index of the first element of the registry   *)
(* that satisfies the test, 0 when there is none                           *)
first(matching) ==
  IF matching = {} THEN 0 ELSE CHOOSE i \in matching : \A k \in matching : i <= k

\* a handler that takes the last agent of the registry with the repository
findByRepoLast(reg, repoName) ==
  LET matching == {i \in 1..Len(reg) : reg[i].repo = repoName} IN
  IF matching = {} THEN 0 ELSE CHOOSE i \in matching : \A k \in matching : i >= k

(* agents.find(a => a.repo === repoName) *)
findByRepo(reg, repoName) == first({i \in 1..Len(reg) : reg[i].repo = repoName})

(* agents.find(a => a.name === agentName) *)
findByName(reg, agentName) == first({i \in 1..Len(reg) : reg[i].name = agentName})

(* ------------------------- the queue (bullmq) ------------------------- *)
(* Queue.add: a new job waits, no attempt made *)
newJob(data) ==
  [ data |-> data, state |-> "waiting", attemptsMade |-> 0,
    returnvalue |-> NoResult, failedReason |-> None, delay |-> 0 ]

(* a claim: the job becomes active and the attempt is counted *)
moveToActive(job) ==
  [job EXCEPT !.state = "active", !.attemptsMade = @ + 1]

(* acknowledgeSuccess *)
moveToCompleted(job, result) ==
  [job EXCEPT !.state = "completed", !.returnvalue = result]

\* a queue with backoff type 'fixed'
backoffFixed(attemptsMade) == BackoffDelay

(* backoff type 'exponential': delay * 2^(attemptsMade - 1) *)
backoff(attemptsMade) == BackoffDelay * 2^(attemptsMade - 1)

(* acknowledgeFailure: a delayed retry while attempts remain, else failed *)
moveToFailed(job, reason) ==
  IF job.attemptsMade < Attempts
  THEN [job EXCEPT !.state = "delayed", !.failedReason = reason,
                   !.delay = backoff(job.attemptsMade)]
  ELSE [job EXCEPT !.state = "failed", !.failedReason = reason]

\* a queue that leaves a delayed job where it is
moveToWaitStuck(job) == job

(* the backoff of a delayed job has elapsed *)
moveToWait(job) == [job EXCEPT !.state = "waiting"]

\* a queue that gives up a job whose claim was lost
moveStalledToFailed(job) == [job EXCEPT !.state = "failed", !.failedReason = "job stalled"]

(* the claim of an active job whose worker is gone has expired *)
moveStalledToWait(job) == [job EXCEPT !.state = "waiting"]

(* ----------------------------- the server ----------------------------- *)
Req(route, sigOk, event, name, branch) ==
  [route |-> route, sigOk |-> sigOk, event |-> event, name |-> name, branch |-> branch]

\* a JSON body; a key the handler does not send is None, FALSE or 0
Body == [ error |-> None, ignored |-> FALSE, reason |-> None, received |-> FALSE,
          event |-> None, queued |-> FALSE, jobId |-> 0, agent |-> None,
          branch |-> None ]

NoResponse == [req |-> Req(None, FALSE, None, None, None), status |-> 0, body |-> Body]

\* the observer's notes on a job: the failed runs of deployAgent, the claims
\* lost, the runs of deployAgent started, the ms since the last failure
NoAudit == [reasons |-> <<>>, lost |-> 0, starts |-> 0, waited |-> 0]

\* a server that adds every job twice
addTwice(data) ==
  /\ jobs'  = Append(Append(jobs, newJob(data)), newJob(data))
  /\ audit' = Append(Append(audit, NoAudit), NoAudit)

(* deployQueue.add('deploy', data, { attempts: 3, backoff: ... }): the    *)
(* queue gives the job the next id                                         *)
add(data) ==
  /\ jobs'  = Append(jobs, newJob(data))
  /\ audit' = Append(audit, NoAudit)

\* a handler that looks at autoDeploy before it looks at the branch
pushDecisionFlagFirst(reg, repoName, branch) ==
  LET i == findByRepo(reg, repoName) IN
  IF i = 0 THEN "unknown repo"
  ELSE IF ~reg[i].autoDeploy THEN "auto-deploy disabled"
  ELSE IF ~includes(reg[i].branches, branch) THEN "branch not configured"
  ELSE None

(* the checks of POST /webhook/github on a push, in the order of the      *)
(* handler: the reason of the rejection, None when the push is accepted    *)
pushDecision(reg, repoName, branch) ==
  LET i == findByRepo(reg, repoName) IN
  IF i = 0 THEN "unknown repo"
  ELSE IF ~includes(reg[i].branches, branch) THEN "branch not configured"
  ELSE IF ~reg[i].autoDeploy THEN "auto-deploy disabled"
  ELSE None

(* res.status(200).json({ ignored: true, reason }) *)
ignoredBody(reason) == [Body EXCEPT !.ignored = TRUE, !.reason = reason]

\* a handler that answers an unknown agent like the webhook does
notFoundIgnored(req) ==
  [req |-> req, status |-> 200, body |-> ignoredBody("unknown agent")]

(* res.status(404).json({ error: 'Agent not found' }) *)
notFound(req) ==
  [req |-> req, status |-> 404, body |-> [Body EXCEPT !.error = "Agent not found"]]

(* the observer keeps the first rejection, and how many jobs there were *)
NoRejection == [response |-> NoResponse, queued |-> 0]

Remember(r) ==
  rejected' = IF rejected = NoRejection
              THEN [response |-> r, queued |-> Len(jobs)] ELSE rejected

\* a handler that answers the rejection but goes on to add a job
rejectAndAdd(r) ==
  /\ response' = r
  /\ Remember(r)
  /\ add([agent |-> None, repo |-> r.req.name, branch |-> r.req.branch, manual |-> FALSE])

(* return res.status(...).json(...) of a rejection: the response is sent  *)
(* and the handler ends                                                    *)
reject(r) ==
  /\ response' = r
  /\ Remember(r)
  /\ UNCHANGED <<jobs, audit>>

\* a handler that ignores the branch of the request
manualBranchIgnored(bodyBranch) == "main"

(* req.body.branch || 'main' *)
manualBranch(bodyBranch) == IF bodyBranch # None THEN bodyBranch ELSE "main"

(* POST /webhook/github *)
WebhookGithub(sigOk, event, repoName, branch) ==
  LET req == Req("webhook", sigOk, event, repoName, branch) IN
  /\ UNCHANGED <<agents, running, disk, crashes, orphaned, query, status>>
  /\ IF ~sigOk THEN
       /\ response' = [req |-> req, status |-> 401,
                       body |-> [Body EXCEPT !.error = "Invalid signature"]]
       /\ UNCHANGED <<jobs, audit, rejected>>
     ELSE IF event # "push" THEN
       /\ response' = [req |-> req, status |-> 200,
                       body |-> [Body EXCEPT !.received = TRUE, !.event = event]]
       /\ UNCHANGED <<jobs, audit, rejected>>
     ELSE LET reason == pushDecision(agents, repoName, branch) IN
       IF reason # None THEN
         reject([req |-> req, status |-> 200, body |-> ignoredBody(reason)])
       ELSE
         LET agent == agents[findByRepo(agents, repoName)] IN
         /\ add([agent |-> agent.name, repo |-> repoName, branch |-> branch,
                 manual |-> FALSE])
         /\ response' = [req |-> req, status |-> 200,
                         body |-> [Body EXCEPT !.queued = TRUE, !.jobId = Len(jobs'),
                                               !.agent = agent.name, !.branch = branch]]
         /\ UNCHANGED rejected

(* POST /deploy/:agent *)
ManualDeploy(agentName, bodyBranch) ==
  LET req == Req("deploy", FALSE, None, agentName, bodyBranch)
      i   == findByName(agents, agentName) IN
  /\ UNCHANGED <<agents, running, disk, crashes, orphaned, query, status>>
  /\ IF i = 0 THEN
       reject(notFound(req))
     ELSE
       /\ add([agent |-> agents[i].name, repo |-> agents[i].repo,
               branch |-> manualBranch(bodyBranch),
               manual |-> TRUE])
       /\ response' = [req |-> req, status |-> 200,
                       body |-> [Body EXCEPT !.queued = TRUE, !.jobId = Len(jobs'),
                                             !.agent = agents[i].name]]
       /\ UNCHANGED rejected

(* ------------------------- the status handler ------------------------- *)
NoData == [agent |-> None, repo |-> None, branch |-> None, manual |-> FALSE]

\* no status request is in progress
NoQuery == [pc |-> "idle", id |-> 0, job |-> newJob(NoData), since |-> newJob(NoData)]

\* a status response; since is the observer's note of the job as it was when
\* the request came in
NoStatus ==
  [ code |-> 0, error |-> None, id |-> 0, state |-> None, data |-> NoData,
    result |-> NoResult, failedReason |-> None, attemptsMade |-> 0,
    since |-> newJob(NoData) ]

\* a handler that answers from the job as it was enqueued
getJobCached(id) == newJob(jobs[id].data)

(* deployQueue.getJob(id): the job record as the queue has it now *)
getJob(id) == jobs[id]

(* job.getState(): the state of the job as the queue has it now *)
getState(id) == jobs[id].state

(* GET /deploy/:jobId/status: the request comes in, the handler calls    *)
(* deployQueue.getJob and awaits it                                        *)
StatusRequest(id) ==
  /\ query.pc = "idle"
  /\ query' = [ pc |-> "getJob", id |-> id, job |-> newJob(NoData),
                since |-> IF id \in JobIds THEN jobs[id] ELSE newJob(NoData) ]
  /\ UNCHANGED <<agents, jobs, running, disk, response, crashes, audit, orphaned, rejected,
                 status>>

(* the queue answers getJob: the job is read, and a job id the queue does *)
(* not know is answered 404; then the handler calls job.getState            *)
GetJob ==
  /\ query.pc = "getJob"
  /\ IF query.id \notin JobIds THEN
       /\ status' = [NoStatus EXCEPT !.code = 404, !.error = "Job not found"]
       /\ query' = NoQuery
     ELSE
       /\ query' = [query EXCEPT !.pc = "getState", !.job = getJob(query.id)]
       /\ UNCHANGED status
  /\ UNCHANGED <<agents, jobs, running, disk, response, crashes, audit, orphaned, rejected>>

(* the queue answers getState: the state is read and the response is     *)
(* sent, with the other fields from the job that getJob read               *)
GetState ==
  /\ query.pc = "getState"
  /\ status' = [ code |-> 200, error |-> None, id |-> query.id,
                 state |-> getState(query.id), data |-> query.job.data,
                 result |-> query.job.returnvalue,
                 failedReason |-> query.job.failedReason,
                 attemptsMade |-> query.job.attemptsMade,
                 since |-> query.since ]
  /\ query' = NoQuery
  /\ UNCHANGED <<agents, jobs, running, disk, response, crashes, audit, orphaned, rejected>>

(* ----------------------------- the worker ----------------------------- *)
NoOutcome == [kind |-> None, result |-> NoResult, message |-> None]

\* deployAgent returned a value / threw an error
Returned(result) == [kind |-> "ok",  result |-> result,   message |-> None]
Thrown(message)  == [kind |-> "err", result |-> NoResult, message |-> message]

\* the observer notes a failed run of deployAgent
Failed(j, message) == audit' = [audit EXCEPT ![j].reasons = Append(@, message)]

\* the processor invocations of worker process w
invocations(w) == {e \in running : e.worker = w}

\* the processor invocations that hold job j
holders(j) == {e \in running : e.job = j}

\* a queue that hands out a job a worker already holds
claimableOrActive(job) == job.state \in {"waiting", "active"}

(* a job the queue hands to a worker: one that waits *)
claimable(job) == job.state = "waiting"

\* a worker that takes every job that waits
hasFreeSlotAlways(w) == TRUE

(* a worker with concurrency 2 takes a job while fewer than 2 of its      *)
(* processor invocations are in progress                                   *)
hasFreeSlot(w) == Cardinality(invocations(w)) < Concurrency

(* fs.mkdtemp: a new directory under a name with a random suffix, a name  *)
(* that no directory on disk and no run of deployAgent has                 *)
mkdtemp(existing) == CHOOSE d \in 1..(Cardinality(existing) + 1) : d \notin existing

Step(e, f) == running' = (running \ {e}) \cup {f}

(* the worker takes job j and calls the processor, which calls            *)
(* deployAgent: const tmpDir = await fs.mkdtemp(...)                       *)
ProcessJob(w, j) ==
  /\ claimable(jobs[j])
  /\ hasFreeSlot(w)
  /\ jobs' = [jobs EXCEPT ![j] = moveToActive(@)]
  /\ LET d == mkdtemp(disk \cup {e.tmpDir : e \in running}) IN
       /\ disk' = disk \cup {d}
       /\ running' = running \cup
            {[worker |-> w, job |-> j, pc |-> "clone", tmpDir |-> d, outcome |-> NoOutcome]}
  /\ audit' = [audit EXCEPT ![j].starts = @ + 1]
  /\ UNCHANGED <<agents, response, crashes, orphaned, rejected, query, status>>

(* deployAgent: await execa('git', ['clone', ...]); a failure leaves the  *)
(* try block for the finally block                                         *)
GitClone(e, ok) ==
  /\ e.pc = "clone"
  /\ Step(e, IF ok THEN [e EXCEPT !.pc = "vercel"]
             ELSE [e EXCEPT !.pc = "finally", !.outcome = Thrown("git clone failed")])
  /\ IF ok THEN UNCHANGED audit ELSE Failed(e.job, "git clone failed")
  /\ UNCHANGED <<agents, jobs, disk, response, crashes, orphaned, rejected, query, status>>

(* the value deployAgent returns: the url printed by this run of vercel   *)
deployment(e) == [url |-> <<e.job, jobs[e.job].attemptsMade>>]

(* deployAgent: vercel.json, then await execa('vercel', ...) and the      *)
(* return statement; a failure leaves the try block                        *)
Vercel(e, ok) ==
  /\ e.pc = "vercel"
  /\ Step(e, [e EXCEPT !.pc = "finally",
                !.outcome = IF ok THEN Returned(deployment(e))
                            ELSE Thrown("vercel failed")])
  /\ IF ok THEN UNCHANGED audit ELSE Failed(e.job, "vercel failed")
  /\ UNCHANGED <<agents, jobs, disk, response, crashes, orphaned, rejected, query, status>>

\* a deployAgent that removes the directory at the end of the try block only
cleanupOnSuccess(dirs, e) == IF e.outcome.kind = "ok" THEN dirs \ {e.tmpDir} ELSE dirs

(* deployAgent: finally { await fs.rm(tmpDir, { recursive, force }) } *)
cleanup(dirs, e) == dirs \ {e.tmpDir}

Finally(e) ==
  /\ e.pc = "finally"
  /\ disk' = cleanup(disk, e)
  /\ Step(e, [e EXCEPT !.pc = "return"])
  /\ UNCHANGED <<agents, jobs, response, crashes, audit, orphaned, rejected, query, status>>

\* a processor that awaits deployAgent and returns nothing
processorResultDropped(outcome) == NoResult

(* what the processor hands back to the queue: deployAgent's result *)
processorResult(outcome) == outcome.result

\* a processor that catches the error of deployAgent
threwNever(outcome) == FALSE

(* the processor has no try/catch: it throws when deployAgent threw *)
threw(outcome) == outcome.kind = "err"

(* the processor returns or throws, and the worker acknowledges the job *)
Return(e) ==
  /\ e.pc = "return"
  /\ running' = running \ {e}
  /\ jobs' = [jobs EXCEPT ![e.job] =
                IF threw(e.outcome) THEN moveToFailed(@, e.outcome.message)
                ELSE moveToCompleted(@, processorResult(e.outcome))]
  /\ audit' = IF threw(e.outcome) THEN [audit EXCEPT ![e.job].waited = 0] ELSE audit
  /\ UNCHANGED <<agents, disk, response, crashes, orphaned, rejected, query, status>>

(* ---------------------- time and the environment ---------------------- *)
\* the jobs whose backoff is running
backingOff == {j \in JobIds : jobs[j].state = "delayed" /\ jobs[j].delay > 0}

(* time passes, up to the moment the first backoff elapses *)
Tick ==
  /\ backingOff # {}
  /\ LET ms == CHOOSE d \in {jobs[j].delay : j \in backingOff} :
                 \A j \in backingOff : d <= jobs[j].delay
     IN /\ jobs' = [j \in JobIds |->
                     IF j \in backingOff THEN [jobs[j] EXCEPT !.delay = @ - ms] ELSE jobs[j]]
        /\ audit' = [j \in JobIds |->
                      IF j \in backingOff THEN [audit[j] EXCEPT !.waited = @ + ms]
                      ELSE audit[j]]
  /\ UNCHANGED <<agents, running, disk, response, crashes, orphaned, rejected, query, status>>

(* a delayed job whose backoff has elapsed waits again *)
BackoffElapsed(j) ==
  /\ jobs[j].state = "delayed"
  /\ jobs[j].delay = 0
  /\ jobs' = [jobs EXCEPT ![j] = moveToWait(@)]
  /\ UNCHANGED <<agents, running, disk, response, crashes, audit, orphaned, rejected, query, status>>

(* worker process w dies: its processor invocations end where they are,   *)
(* nothing is acknowledged, no finally block runs; a new process takes     *)
(* its place                                                               *)
WorkerCrash(w) ==
  /\ crashes < MaxCrashes
  /\ invocations(w) # {}
  /\ running'  = running \ invocations(w)
  /\ orphaned' = orphaned \cup {e.tmpDir : e \in {x \in invocations(w) : x.tmpDir \in disk}}
  /\ crashes'  = crashes + 1
  /\ audit'    = [j \in JobIds |->
                    IF \E e \in invocations(w) : e.job = j
                    THEN [audit[j] EXCEPT !.lost = @ + 1] ELSE audit[j]]
  /\ UNCHANGED <<agents, jobs, disk, response, rejected, query, status>>

(* the claim of an active job that no worker holds any more expires *)
ClaimExpired(j) ==
  /\ jobs[j].state = "active"
  /\ holders(j) = {}
  /\ jobs'  = [jobs EXCEPT ![j] = moveStalledToWait(@)]
  /\ UNCHANGED <<agents, running, disk, response, crashes, audit, orphaned, rejected, query, status>>

(* --------------------------- specifications --------------------------- *)
InitWith(reg) ==
  /\ agents = reg
  /\ jobs = <<>>
  /\ running = {}
  /\ disk = {}
  /\ response = NoResponse
  /\ crashes = 0
  /\ audit = <<>>
  /\ orphaned = {}
  /\ rejected = NoRejection
  /\ query = NoQuery
  /\ status = NoStatus

\* the deployer as it is configured in config.ts
Init == InitWith(SourceAgents)

\* the deployer with any registry of Registries
InitAnyRegistry == \E reg \in Registries : InitWith(reg)

(* the requests the server receives, while the queue has room *)
Server(deliveries, manuals, room) ==
  \/ \E d \in deliveries :
       /\ WebhookGithub(d.sigOk, d.event, d.repoName, d.branch)
       /\ Len(jobs') <= room
  \/ \E m \in manuals :
       /\ ManualDeploy(m.agent, m.branch)
       /\ Len(jobs') <= room

(* the steps of the worker processes ws *)
Worker(ws) ==
  \/ \E w \in ws, j \in JobIds : ProcessJob(w, j)
  \/ \E e \in running, ok \in BOOLEAN : GitClone(e, ok)
  \/ \E e \in running, ok \in BOOLEAN : Vercel(e, ok)
  \/ \E e \in running : Finally(e)
  \/ \E e \in running : Return(e)

(* time and the queue's backoff timers *)
Timers ==
  \/ Tick
  \/ \E j \in JobIds : BackoffElapsed(j)

(* crashes of the worker processes ws, and the claims they lose *)
Crashes(ws) ==
  \/ \E w \in ws : WorkerCrash(w)
  \/ \E j \in JobIds : ClaimExpired(j)

(* the status requests of the pollers, for the ids in ids *)
Status(ids) ==
  \/ \E id \in ids : StatusRequest(id)
  \/ GetJob
  \/ GetState

\* the requests the registry of config.ts accepts
Accepted(room) ==
  Server({Delivery(TRUE, "push", "otis-seo-agent", "main")},
         {[agent |-> "harold", branch |-> "release"]}, room)

\* the deployer as config.ts configures it: one worker process that stays up
Next == Accepted(MaxJobs) \/ Worker({1}) \/ Timers

Spec == Init /\ [][Next]_vars

\* the server under every request, with any registry of Registries; the
\* worker process runs the jobs
NextAnyRegistry == Server(Deliveries, Manuals, MaxQueued) \/ Worker({1})

SpecAnyRegistry == InitAnyRegistry /\ [][NextAnyRegistry]_vars

\* several worker processes on the queue, which may crash
NextWorkers == Accepted(MaxQueued) \/ Worker(Workers) \/ Timers \/ Crashes(Workers)

SpecWorkers == Init /\ [][NextWorkers]_vars

\* one worker process that stays up, and pollers that ask for the status
NextStatus == Accepted(MaxQueued) \/ Worker({1}) \/ Timers \/ Status(1..(MaxQueued + 1))

SpecStatus == Init /\ [][NextStatus]_vars

\* pushes for the repository of otis on main, while the queue has room
Pushed(room) ==
  /\ WebhookGithub(TRUE, "push", "otis-seo-agent", "main")
  /\ Len(jobs') <= room

\* one worker process that stays up, with more jobs than it has slots
NextPool == Pushed(MaxPool) \/ Worker({1}) \/ Timers

SpecPool == Init /\ [][NextPool]_vars

\* the worker's own steps: it takes a job when it has a free slot, runs the
\* finally block and returns, once git or vercel has ended
WorkerKeepsRunning ==
  /\ WF_vars(\E j \in JobIds : ProcessJob(1, j))
  /\ WF_vars(\E e \in running : Finally(e))
  /\ WF_vars(\E e \in running : Return(e))

\* time advances and the queue's timers fire
TimeAdvances == WF_vars(Timers)

\* git and vercel end, with success or failure
ExecutorReturns ==
  /\ WF_vars(\E e \in running, ok \in BOOLEAN : GitClone(e, ok))
  /\ WF_vars(\E e \in running, ok \in BOOLEAN : Vercel(e, ok))

\* the deployer of Spec with a worker that keeps running, while git and
\* vercel may take for ever
SpecWorkerAlive == Spec /\ WorkerKeepsRunning /\ TimeAdvances

\* the deployer of Spec with a worker that keeps running and an executor
\* that returns
SpecLive == Spec /\ WorkerKeepsRunning /\ TimeAdvances /\ ExecutorReturns

(* ============================== claims ================================ *)
failures(j) == Len(audit[j].reasons)      \* failed runs of deployAgent for job j

C2_OneExecutionPerJob ==
  \A j \in JobIds :
    /\ Cardinality(holders(j)) <= 1
    /\ holders(j) # {} => jobs[j].state = "active"

\* a job whose claim was lost by one worker process is executed by another
C2_Witness ==
  \E e \in running :
    /\ audit[e.job].lost >= 1
    /\ e.worker = 2
    /\ e.pc = "vercel"

(* C3: the answer to a push is decided by the first failing check, in the *)
(* order repository, branch, autoDeploy, of the first agent of the         *)
(* registry with that repository; a push that passes all three is queued;  *)
(* and two rejections with the same reason failed the same check.          *)
IsPush(r) == r.req.route = "webhook" /\ r.req.sigOk /\ r.req.event = "push"

\* 1: no agent has the repository, 2: the branch is not one of the agent's,
\* 3: autoDeploy is off, 0: no check fails
FailingCheck(q) ==
  LET matching == {i \in 1..Len(agents) : agents[i].repo = q.name} IN
  IF matching = {} THEN 1
  ELSE LET a == agents[CHOOSE i \in matching : \A k \in matching : i <= k] IN
       IF q.branch \notin {a.branches[k] : k \in 1..Len(a.branches)} THEN 2
       ELSE IF ~a.autoDeploy THEN 3
       ELSE 0

Ignored(r, reason) ==
  /\ r.status = 200
  /\ r.body.ignored
  /\ ~r.body.queued
  /\ r.body.error = None
  /\ r.body.reason = reason

C3_FirstFailingCheckDecides ==
  /\ IsPush(response) =>
       CASE FailingCheck(response.req) = 1 -> Ignored(response, "unknown repo")
         [] FailingCheck(response.req) = 2 -> Ignored(response, "branch not configured")
         [] FailingCheck(response.req) = 3 -> Ignored(response, "auto-deploy disabled")
         [] OTHER -> response.body.queued /\ ~response.body.ignored
  /\ ( /\ IsPush(response) /\ response.body.ignored
       /\ IsPush(rejected.response) /\ rejected.response.body.ignored
       /\ response.body.reason = rejected.response.body.reason )
     => FailingCheck(response.req) = FailingCheck(rejected.response.req)

\* a push on a branch that is not allowed, for an agent with autoDeploy off
C3_Witness ==
  /\ IsPush(response)
  /\ \E i \in 1..Len(agents) :
       /\ agents[i].repo = response.req.name
       /\ \A k \in 1..(i-1) : agents[k].repo # response.req.name
       /\ ~agents[i].autoDeploy
       /\ ~includes(agents[i].branches, response.req.branch)
  /\ response.body.reason = "branch not configured"

(* C4: a request the server rejects (push: unknown repository, branch not *)
(* configured, auto-deploy disabled; manual: unknown agent) adds no job    *)
(* and changes no job, and the same request, sent again after any other    *)
(* requests and worker steps, gets the same answer.                        *)
IsRejection(r) == r.body.ignored \/ r.status = 404

C4_SameAnswer ==
  (IsRejection(response) /\ response.req = rejected.response.req)
    => response = rejected.response

C4_QueueUntouched ==
  IsRejection(response') =>
    /\ Len(jobs') = Len(jobs)
    /\ response' # response => jobs' = jobs

C4_RejectionsAreNoOps == [](C4_SameAnswer) /\ [][C4_QueueUntouched]_vars

\* the first rejected request was sent again after a job was queued and run
C4_Witness ==
  /\ IsRejection(response)
  /\ response = rejected.response
  /\ Len(jobs) > rejected.queued
  /\ \E j \in JobIds : jobs[j].state = "completed"

(* C5: a step in which the server accepts a trigger adds exactly one job,  *)
(* under an id no job had, waiting and with attemptsMade = 0, and leaves   *)
(* the other jobs as they were.                                            *)
C5_Accepts ==
  (Len(jobs') # Len(jobs) \/ (response' # response /\ response'.body.queued)) =>
    /\ response'.status = 200
    /\ response'.body.queued
    /\ Len(jobs') = Len(jobs) + 1
    /\ \A i \in JobIds : jobs'[i] = jobs[i]
    /\ response'.body.jobId = Len(jobs')
    /\ response'.body.jobId \notin JobIds
    /\ jobs'[Len(jobs')].state = "waiting"
    /\ jobs'[Len(jobs')].attemptsMade = 0
    /\ jobs'[Len(jobs')].data.repo \in {a.repo : a \in {agents[i] : i \in 1..Len(agents)}}

C5_AcceptedTriggerAddsOneWaitingJob == [][C5_Accepts]_vars

\* a push for otis's repository on main, with branches [main] and autoDeploy
C5_Witness ==
  /\ \E i \in 1..Len(agents) : agents[i] = Agent("otis", "otis-seo-agent", TRUE, <<"main">>)
  /\ response.req = Req("webhook", TRUE, "push", "otis-seo-agent", "main")
  /\ response.body.queued
  /\ response.body.agent = "otis"
  /\ Len(jobs) = 1
  /\ jobs[1].state = "waiting"
  /\ jobs[1].attemptsMade = 0

(* C6: the answer to a manual trigger that names a registered agent is a   *)
(* queued job of that agent for the requested branch (main when none is    *)
(* given), whatever the agent's branches and autoDeploy are.               *)
C6_ManualTriggerIsQueued ==
  LET q == response.req IN
  (q.route = "deploy" /\ \E i \in 1..Len(agents) : agents[i].name = q.name) =>
    /\ response.status = 200
    /\ response.body.queued
    /\ response.body.jobId \in JobIds
    /\ jobs[response.body.jobId].data.agent = q.name
    /\ jobs[response.body.jobId].data.manual
    /\ jobs[response.body.jobId].data.branch = IF q.branch = None THEN "main" ELSE q.branch

\* harold, branch release, with release not allowed and autoDeploy off
C6_Witness ==
  /\ response.req = Req("deploy", FALSE, None, "harold", "release")
  /\ \E i \in 1..Len(agents) :
       /\ agents[i].name = "harold"
       /\ ~agents[i].autoDeploy
       /\ ~includes(agents[i].branches, "release")
  /\ response.body.queued
  /\ jobs[response.body.jobId].data.branch = "release"

(* C7 as stated: a push or a manual trigger that matches no agent is       *)
(* answered as a success with a reason, not as an error.                   *)
UnknownRepo(r)  == IsPush(r) /\ \A i \in 1..Len(agents) : agents[i].repo # r.req.name
UnknownAgent(r) == r.req.route = "deploy" /\ \A i \in 1..Len(agents) : agents[i].name # r.req.name

C7_Original ==
  (UnknownRepo(response) \/ UnknownAgent(response)) =>
    /\ response.status = 200
    /\ response.body.error = None
    /\ response.body.reason # None

(* C7 amended: a push that matches no agent is answered 200 with ignored   *)
(* and the reason 'unknown repo'; a manual trigger that matches no agent   *)
(* is answered with the error 404 'Agent not found'; neither adds a job.   *)
C7_Answers ==
  /\ UnknownRepo(response) => Ignored(response, "unknown repo")
  /\ UnknownAgent(response) =>
       /\ response.status = 404
       /\ response.body.error = "Agent not found"
       /\ response.body.reason = None
       /\ ~response.body.queued

C7_NothingQueued ==
  (UnknownRepo(response') \/ UnknownAgent(response')) =>
    /\ Len(jobs') = Len(jobs)
    /\ response' # response => jobs' = jobs

C7_UnknownAgentIsNotQueued == [](C7_Answers) /\ [][C7_NothingQueued]_vars

\* both kinds of trigger were answered for an unknown agent
C7_Witness ==
  /\ UnknownAgent(response)
  /\ response.status = 404
  /\ UnknownRepo(rejected.response)
  /\ rejected.response.body.reason = "unknown repo"
  /\ Len(jobs) = rejected.queued

(* C8 as stated: the directory of a run of deployAgent is gone when the    *)
(* run returns, so with no run in progress no directory exists.            *)
C8_Original ==
  /\ \A e \in running : e.pc = "return" => e.tmpDir \notin disk
  /\ running = {} => disk = {}

(* C8 amended: the directory of a run of deployAgent is gone when the run  *)
(* returns, by a result or by an error of git or vercel; so the only       *)
(* directories that exist are those of the runs in progress and those of   *)
(* runs that a crash of the worker process cut short.                      *)
C8_WorkspaceRemovedOnReturn ==
  /\ \A e \in running : e.pc = "return" => e.tmpDir \notin disk
  /\ \A d \in disk :
       \/ d \in orphaned
       \/ \E e \in running : e.tmpDir = d /\ e.pc # "return"

\* a job completed after a failed clone and a failed publish; nothing is left
C8_Witness ==
  /\ running = {}
  /\ disk = {}
  /\ \E j \in JobIds :
       /\ jobs[j].state = "completed"
       /\ audit[j].reasons = <<"git clone failed", "vercel failed">>
       /\ audit[j].lost = 0

(* C9: a job whose first and second run failed and whose third succeeded   *)
(* is completed with attemptsMade = 3 and the result of the third run, and *)
(* it was never failed: no job leaves the state failed.                    *)
C9_Completed ==
  \A j \in JobIds :
    (jobs[j].state = "completed" /\ failures(j) = 2 /\ audit[j].lost = 0) =>
      /\ jobs[j].attemptsMade = 3
      /\ jobs[j].returnvalue = [url |-> <<j, 3>>]

C9_FailedIsFinal ==
  \A j \in JobIds : jobs[j].state = "failed" => jobs'[j].state = "failed"

C9_ThirdAttemptCompletes == [](C9_Completed) /\ [][C9_FailedIsFinal]_vars

C9_Witness ==
  \E j \in JobIds :
    /\ jobs[j].state = "completed"
    /\ failures(j) = 2
    /\ audit[j].lost = 0
    /\ jobs[j].attemptsMade = 3

(* C10: a job whose three runs failed is failed, with the reason of the    *)
(* third failure, and a failed job is never changed, claimed or executed.  *)
C10_Failed ==
  \A j \in JobIds :
    (failures(j) = 3 /\ audit[j].lost = 0 /\ holders(j) = {}) =>
      /\ jobs[j].state = "failed"
      /\ jobs[j].failedReason = audit[j].reasons[3]

C10_NeverAgain ==
  \A j \in JobIds :
    jobs[j].state = "failed" =>
      /\ jobs'[j] = jobs[j]
      /\ \A e \in running' : e.job # j

C10_ThreeFailuresFailForGood == [](C10_Failed) /\ [][C10_NeverAgain]_vars

\* the third failure has another reason than the two before it
C10_Witness ==
  \E j \in JobIds :
    /\ jobs[j].state = "failed"
    /\ audit[j].reasons = <<"git clone failed", "git clone failed", "vercel failed">>
    /\ jobs[j].failedReason = "vercel failed"
    /\ audit[j].lost = 0

(* C11 as stated: after its k-th failed run (k = 1, 2) a job is delayed,    *)
(* and 5000 * 2^(k-1) ms pass between that failure and the moment it can   *)
(* be claimed again, for jobs of pushes and of manual requests alike.      *)
C11_Original ==
  \A j \in JobIds :
    (jobs[j].state = "delayed" /\ failures(j) \in {1, 2}) =>
      audit[j].waited + jobs[j].delay = 5000 * 2^(failures(j) - 1)

(* C11 amended: after a failed run that leaves attemptsMade = k (k = 1, 2) *)
(* a job is delayed and no worker claims it before 5000 * 2^(k-1) ms have  *)
(* passed since that failure; k is the number of failed runs when the job  *)
(* never lost a claim (5000 ms before run 2, 10000 ms before run 3); jobs  *)
(* of pushes and of manual requests alike.                                 *)
C11_Delay ==
  \A j \in JobIds :
    jobs[j].state = "delayed" =>
      /\ jobs[j].attemptsMade \in {1, 2}
      /\ audit[j].waited + jobs[j].delay = 5000 * 2^(jobs[j].attemptsMade - 1)
      /\ jobs[j].failedReason # None
      /\ audit[j].lost = 0 => failures(j) = jobs[j].attemptsMade

C11_NoEarlyClaim ==
  \A j \in JobIds :
    jobs[j].state = "delayed" =>
      /\ jobs'[j].state \in {"delayed", "waiting"}
      /\ \A e \in running' : e.job # j
      /\ jobs'[j].state = "waiting" =>
           audit[j].waited >= 5000 * 2^(jobs[j].attemptsMade - 1)

C11_BackoffIsExponential == [](C11_Delay) /\ [][C11_NoEarlyClaim]_vars

\* a manually triggered job can be claimed for its third run, 10000 ms after
\* its second failure
C11_Witness ==
  \E j \in JobIds :
    /\ jobs[j].data.manual
    /\ jobs[j].state = "waiting"
    /\ jobs[j].attemptsMade = 2
    /\ failures(j) = 2
    /\ audit[j].lost = 0
    /\ audit[j].waited = 10000

(* C12 as stated: a job starts waiting, and every change of its state is   *)
(* one of waiting -> active (claim), active -> completed (success),        *)
(* active -> delayed (failure, attemptsMade < 3), active -> failed         *)
(* (failure, attemptsMade = 3), active -> waiting (claim lost),            *)
(* delayed -> waiting (backoff elapsed).                                   *)
Starts == \A j \in (1..Len(jobs')) \ JobIds : jobs'[j].state = "waiting"

Claimed(j)   == holders(j) = {} /\ \E e \in running' : e.job = j
Succeeded(j) == \E e \in holders(j) : e.pc = "return" /\ e.outcome.kind = "ok"
Errored(j)   == \E e \in holders(j) : e.pc = "return" /\ e.outcome.kind = "err"

Changes(j, from, to) == jobs[j].state = from /\ jobs'[j].state = to

C12_OriginalStep ==
  /\ Starts
  /\ \A j \in JobIds :
       jobs'[j].state # jobs[j].state =>
         \/ Changes(j, "waiting", "active")   /\ Claimed(j)
         \/ Changes(j, "active", "completed") /\ Succeeded(j)
         \/ Changes(j, "active", "delayed")   /\ Errored(j) /\ jobs[j].attemptsMade < 3
         \/ Changes(j, "active", "failed")    /\ Errored(j) /\ jobs[j].attemptsMade = 3
         \/ Changes(j, "active", "waiting")   /\ holders(j) = {}
         \/ Changes(j, "delayed", "waiting")  /\ jobs[j].delay = 0

C12_Step ==
  /\ Starts
  /\ \A j \in JobIds :
       jobs'[j].state # jobs[j].state =>
         \/ Changes(j, "waiting", "active")   /\ Claimed(j)
         \/ Changes(j, "active", "completed") /\ Succeeded(j)
         \/ Changes(j, "active", "delayed")   /\ Errored(j) /\ jobs[j].attemptsMade < 3
         \/ /\ Changes(j, "active", "failed")
            /\ Errored(j)
            /\ jobs[j].attemptsMade >= 3
            /\ audit[j].lost = 0 => jobs[j].attemptsMade = 3
         \/ Changes(j, "active", "waiting")   /\ holders(j) = {}
         \/ Changes(j, "delayed", "waiting")  /\ jobs[j].delay = 0

C16_Budget ==
  \A j \in JobIds :
    /\ audit[j].starts = jobs[j].attemptsMade
    /\ audit[j].starts <= 3 + audit[j].lost
    /\ audit[j].lost = 0 => audit[j].starts <= 3

C16_Silent ==
  \A j \in JobIds :
    (jobs[j].state = "active" /\ holders(j) = {} /\ jobs'[j] # jobs[j]) =>
      /\ jobs'[j] = [jobs[j] EXCEPT !.state = "waiting"]
      /\ audit'[j] = audit[j]

C13_Original ==
  status.code = 200 =>
    /\ status.result # NoResult => status.state = "completed"
    /\ status.failedReason # None => status.state \in {"failed", "delayed"}

(* C14: a status response is no older than the job was when the request    *)
(* came in: attemptsMade is not smaller; a job that was completed or       *)
(* failed is reported as it was; a result that was there is reported; and  *)
(* the failedReason is that of the last failure acknowledged by then or of *)
(* a later one.                                                            *)
ackedFailures(job) ==
  job.attemptsMade - (IF job.state \in {"active", "completed"} THEN 1 ELSE 0)

C14_NoStaleRead ==
  status.code = 200 =>
    LET old == status.since
        j   == status.id
    IN /\ status.attemptsMade >= old.attemptsMade
       /\ old.state \in {"completed", "failed"} =>
            /\ status.state = old.state
            /\ status.attemptsMade = old.attemptsMade
            /\ status.result = old.returnvalue
            /\ status.failedReason = old.failedReason
       /\ old.returnvalue # NoResult => status.result = old.returnvalue
       /\ old.failedReason # None =>
            \E k \in ackedFailures(old)..failures(j) :
              status.failedReason = audit[j].reasons[k]
       /\ old.data = jobs[j].data => status.data = old.data

\* the request came in after the second failure was acknowledged, and the
\* response reports the third run, or its end
C14_Witness ==
  /\ status.code = 200
  /\ status.since.state = "delayed"
  /\ status.since.attemptsMade = 2
  /\ status.since.failedReason = "vercel failed"
  /\ status.attemptsMade = 3
  /\ status.state \in {"active", "completed", "failed"}

(* C18 as stated: a status response that reports completed carries the     *)
(* job's result, and one that reports failed carries the failedReason and  *)
(* the attemptsMade of the run that failed last.                           *)
C18_Original ==
  status.code = 200 =>
    /\ status.state = "completed" =>
         /\ status.result # NoResult
         /\ status.result = jobs[status.id].returnvalue
    /\ status.state = "failed" =>
         /\ status.failedReason = jobs[status.id].failedReason
         /\ status.attemptsMade = jobs[status.id].attemptsMade

(* C15 as stated: a run of deployAgent is ended by a timeout when git or   *)
(* vercel does not return, so no job stays active for ever while its       *)
(* worker is alive.                                                        *)
C15_Original ==
  \A j \in 1..MaxJobs :
    (j \in JobIds /\ jobs[j].state = "active") ~>
      (j \in JobIds /\ jobs[j].state # "active")

(* C17: a worker process has at most 2 runs of deployAgent in progress;    *)
(* two runs in progress have different jobs and different directories,     *)
(* and the directory of a run exists until its finally block; a run keeps  *)
(* its job from the claim to the acknowledge, and a run starts only in a   *)
(* worker that has a slot free.                                            *)
C17_Slots ==
  /\ \A w \in Workers : Cardinality(invocations(w)) <= 2
  /\ \A e \in running : \A f \in running \ {e} :
       /\ e.tmpDir # f.tmpDir
       /\ e.job # f.job
  /\ \A e \in running : e.pc \in {"clone", "vercel", "finally"} => e.tmpDir \in disk

C17_OneJobPerSlot ==
  /\ \A e \in running :
       IF \E f \in running' : f.tmpDir = e.tmpDir
       THEN \A f \in running' : f.tmpDir = e.tmpDir => (f.job = e.job /\ f.worker = e.worker)
       ELSE e.pc = "return" /\ jobs[e.job].state = "active" /\ jobs'[e.job].state # "active"
  /\ \A f \in running' :
       (\A e \in running : e.tmpDir # f.tmpDir) =>
         /\ Cardinality(invocations(f.worker)) < 2
         /\ jobs[f.job].state = "waiting"
         /\ jobs'[f.job].state = "active"

C17_TwoSlotsPerWorker == [](C17_Slots) /\ [][C17_OneJobPerSlot]_vars

\* both slots of the worker are taken, one by a retry, and a third job waits
C17_Witness ==
  /\ Cardinality(invocations(1)) = 2
  /\ Cardinality({e.tmpDir : e \in invocations(1)}) = 2
  /\ \E e \in invocations(1) : jobs[e.job].attemptsMade = 2
  /\ \E j \in JobIds : jobs[j].state = "waiting" /\ jobs[j].attemptsMade = 0

(* C19: with a worker that keeps running, time that advances and an        *)
(* executor that returns, every job that was enqueued is completed or      *)
(* failed in the end, and a delayed job waits again without any request.   *)
C19_EveryJobEnds ==
  \A j \in 1..MaxJobs :
    /\ (j \in JobIds) ~> (j \in JobIds /\ jobs[j].state \in {"completed", "failed"})
    /\ (j \in JobIds /\ jobs[j].state = "delayed") ~>
         (j \in JobIds /\ jobs[j].state = "waiting")

\* all jobs have ended, one of them after two delayed retries
C19_Witness ==
  /\ Len(jobs) >= 2
  /\ \A j \in JobIds : jobs[j].state \in {"completed", "failed"}
  /\ \E j \in JobIds : jobs[j].state = "completed" /\ failures(j) = 2
  /\ \E j \in JobIds : jobs[j].state = "failed"

(* C20: a push adds at most one job, and its answer is decided by the      *)
(* first agent of the registry with the pushed repository alone: by its    *)
(* branches, then by its autoDeploy; agents further down the registry      *)
(* with the same repository are not looked at.                             *)
FirstWithRepo(repoName) ==
  LET matching == {i \in 1..Len(agents) : agents[i].repo = repoName}
  IN CHOOSE i \in matching : \A k \in matching : i <= k

C20_FirstDecides ==
  (IsPush(response) /\ \E i \in 1..Len(agents) : agents[i].repo = response.req.name) =>
    LET a == agents[FirstWithRepo(response.req.name)]
        allowed == \E k \in 1..Len(a.branches) : a.branches[k] = response.req.branch
    IN /\ ~allowed => Ignored(response, "branch not configured")
       /\ (allowed /\ ~a.autoDeploy) => Ignored(response, "auto-deploy disabled")
       /\ (allowed /\ a.autoDeploy) =>
            /\ response.body.queued
            /\ response.body.agent = a.name
            /\ jobs[response.body.jobId].data.agent = a.name

C20_AtMostOne ==
  /\ Len(jobs') <= Len(jobs) + 1
  /\ (response' # response /\ IsPush(response') /\ ~response'.body.queued) => jobs' = jobs

C20_FirstAgentWithRepoDecides == [](C20_FirstDecides) /\ [][C20_AtMostOne]_vars

\* otis and harold share a repository; otis has autoDeploy off, harold would
\* accept the push; the push is rejected and nothing is queued
C20_Witness ==
  /\ agents[1].repo = agents[2].repo
  /\ ~agents[1].autoDeploy
  /\ agents[2].autoDeploy
  /\ response.req = Req("webhook", TRUE, "push", agents[1].repo, "main")
  /\ Ignored(response, "auto-deploy disabled")
  /\ jobs = <<>>

====
